---- MODULE Spec2Model ----
(***************************************************************************)
(* Model of src/backend/main.py (Kabob Store API on Aurora DSQL):          *)
(* the DSQLConnectionManager (one shared psycopg2 connection, a cached     *)
(* token, a lock), the schema / seed initialisation, and the data-access   *)
(* functions, run by request threads against one database.                 *)
(*                                                                         *)
(* Every call that reaches the token service or the database (token fetch, *)
(* connect, execute, commit, rollback) is one atomic step of the calling   *)
(* thread; the steps of different threads interleave freely.  The clock,   *)
(* `now`, advances independently of every thread.                          *)
(***************************************************************************)
EXTENDS Integers, Sequences, FiniteSets, Bags, TLC

\* ---------------------------------------------------------------- bounds
NumThreads == 2      \* request threads of the server
MaxTime == 2         \* the clock runs 0..MaxTime
TokenTicks == 1      \* clock ticks in the 55 minutes a cached token is used
MaxTokens == 2       \* tokens the token service issues in a run
MaxConns == 2        \* connections psycopg2.connect opens in a run
MaxFaults == 1       \* failures of external calls (token service, database) in a run
MaxOrders == 1       \* order ids uuid4 hands out in a run

Threads == 1..NumThreads
MainThread == CHOOSE t \in Threads : \A u \in Threads : t <= u

\* Python's None, for the manager's three fields (lines 97-99) and for locals.
None == -1

\* ------------------------------------------------------------ the database
TableNames == {"menu_items", "orders"}

\* The seed rows of create_sample_menu_items: (name, category); the description,
\* price and image_url columns play no part in any statement's outcome.
sample_items ==
    << [name |-> "Chicken Kabob",   category |-> "Kabobs"],
       [name |-> "Beef Kabob",      category |-> "Kabobs"],
       [name |-> "Lamb Kabob",      category |-> "Kabobs"],
       [name |-> "Vegetable Kabob", category |-> "Kabobs"],
       [name |-> "Hummus & Pita",   category |-> "Appetizers"],
       [name |-> "Baklava",         category |-> "Desserts"] >>

\* The row the INSERT of line 267 stores for seed item i (available = True).
MenuRow(i) ==
    [name |-> sample_items[i].name, category |-> sample_items[i].category,
     available |-> TRUE]

\* A database content: the tables that exist, the menu_items rows (a bag: every
\* row has a fresh uuid4 id, so equal seed rows can coexist) and the orders rows.
EmptyDB == [tables |-> {}, menu |-> EmptyBag, orders |-> {}]

RECURSIVE SeedBag(_)
SeedBag(n) == IF n = 0 THEN EmptyBag ELSE SeedBag(n - 1) (+) SetToBag({MenuRow(n)})

\* The database a previous run of the service left behind: both tables, six seeds.
SeededDB == [tables |-> TableNames, menu |-> SeedBag(Len(sample_items)), orders |-> {}]

VARIABLES
    server,            \* "starting" until startup_event has run, then "up"
    now,               \* datetime.now()
    token,             \* dsql_manager.token (None or a token id)
    token_expires_at,  \* dsql_manager.token_expires_at (None or an instant)
    connection,        \* dsql_manager.connection (None or an index of conns)
    lock,              \* dsql_manager.lock: None or the thread holding it
    conns,             \* every connection opened so far, in order
    issued,            \* tokens issued so far
    db,                \* the committed database content
    faults,            \* failures of external calls so far
    nextId,            \* order ids handed out so far
    op,                \* per thread: the operation it runs
    pc,                \* per thread: its place in that operation
    gc,                \* per thread: its place inside get_connection
    conn,              \* per thread: local `conn` of the innermost data function
    connInit,          \* per thread: local `conn` of initialize_database_with_sample_data
    connEp,            \* per thread: local `conn` of initialize_database_endpoint
    cnt,               \* per thread: local `count` of initialize_database_with_sample_data
    idx,               \* per thread: loop index of create_sample_menu_items
    arg,               \* per thread: create_order's sanitized arguments and order_id
    row,               \* per thread: create_order's local `row`
    result,            \* per thread: how its last operation ended
    startupFailed,     \* history: startup_event caught an exception
    epoch,             \* history: refresh activity since the session last went stale
    request            \* per thread: the HTTP request validate_request was given

manager == <<token, token_expires_at, connection, lock, issued>>
locals == <<conn, connInit, connEp, cnt, idx, arg, row>>
vars == <<server, now, token, token_expires_at, connection, lock, conns, issued, db,
          faults, nextId, op, pc, gc, conn, connInit, connEp, cnt, idx, arg, row,
          result, startupFailed, epoch, request>>

NoItems == [isList |-> TRUE, len |-> 0]
NoArg == [name |-> <<>>, email |-> <<>>, items |-> NoItems, total |-> 0, id |-> None]
NoRow == [id |-> None, customer_name |-> <<>>, customer_email |-> <<>>, total_amount |-> 0]
\* A request is its URL, in pieces, and its Content-Length header.
NoRequest == [url |-> <<>>, content_length |-> [present |-> FALSE, text |-> <<>>]]

\* ------------------------------------------------------------ connections
\* A psycopg2 connection: closed flag, the token it was opened with (its password),
\* the expiry cached for that token, the transaction status, the DDL statements
\* issued in the open transaction, and the open transaction's view of the data.
NewConn(tok, exp) ==
    [closed |-> FALSE, token |-> tok, exp |-> exp, status |-> "idle", ddl |-> 0,
     w |-> EmptyDB]

Ended(cr) == [cr EXCEPT !.status = "idle", !.ddl = 0, !.w = EmptyDB]
\* A closed connection keeps nothing but the fact that it is closed.
Closed(cr) == [Ended(cr) EXCEPT !.closed = TRUE, !.token = None, !.exp = None]

\* What a statement on connection c reads: its open transaction's view, else the
\* committed content (the transaction begins with the statement).
View(c) == IF conns[c].status = "intrans" THEN conns[c].w ELSE db

Min(a, b) == IF a < b THEN a ELSE b

\* One more external failure may still happen in this run.
MayFail == faults < MaxFaults

\* ------------------------------------------------- outcomes of database calls
\* cursor.execute on connection c of a statement that reads or writes the tables
\* `needs`, is a schema change or not (isDDL: 1 or 0), and leaves the
\* transaction's view newW when it succeeds.  A closed connection or an aborted
\* transaction refuses it (InterfaceError, InFailedSqlTransaction).  Otherwise the
\* statement begins a transaction if none is open, and succeeds when its tables
\* exist and, for a schema change, the transaction holds no other one (DSQL allows
\* one DDL statement per transaction); a statement the server rejects aborts the
\* transaction.  Any statement may also fail for an external reason: the server
\* reports an error, or the connection is lost.
ExecOutcomes(c, needs, isDDL, newW) ==
    LET cr == conns[c]
        begun == [cr EXCEPT !.status = "intrans", !.w = View(c),
                            !.ddl = Min(cr.ddl + isDDL, 2)]
        accepted == needs \subseteq View(c).tables /\ (isDDL = 1 => cr.ddl = 0)
        aborted == [begun EXCEPT !.status = "inerror"]
    IN  IF cr.closed \/ cr.status = "inerror"
        THEN {[raised |-> TRUE, conns |-> conns, db |-> db, fault |-> 0]}
        ELSE (IF accepted
              THEN {[raised |-> FALSE, fault |-> 0, db |-> db,
                     conns |-> [conns EXCEPT ![c] = [begun EXCEPT !.w = newW]]]}
              ELSE {[raised |-> TRUE, fault |-> 0, db |-> db,
                     conns |-> [conns EXCEPT ![c] = aborted]]})
             \cup
             (IF MayFail
              THEN {[raised |-> TRUE, fault |-> 1, db |-> db,
                     conns |-> [conns EXCEPT ![c] = aborted]],
                    [raised |-> TRUE, fault |-> 1, db |-> db,
                     conns |-> [conns EXCEPT ![c] = Closed(cr)]]}
              ELSE {})

\* conn.commit() on connection c.  With no transaction open it sends nothing.  An
\* open transaction becomes the committed content; an aborted one is rolled back
\* by the server without an error.  The commit of an open transaction may fail:
\* the server aborts it (DSQL's optimistic concurrency), or the connection is lost.
CommitOutcomes(c) ==
    LET cr == conns[c]
    IN  IF cr.closed
        THEN {[raised |-> TRUE, conns |-> conns, db |-> db, fault |-> 0]}
        ELSE {[raised |-> FALSE, fault |-> 0,
               db |-> IF cr.status = "intrans" THEN cr.w ELSE db,
               conns |-> [conns EXCEPT ![c] = Ended(cr)]]}
             \cup
             (IF MayFail /\ cr.status # "idle"
              THEN {[raised |-> TRUE, fault |-> 1, db |-> db,
                     conns |-> [conns EXCEPT ![c] = Ended(cr)]],
                    [raised |-> TRUE, fault |-> 1, db |-> db,
                     conns |-> [conns EXCEPT ![c] = Closed(cr)]]}
              ELSE {})

\* conn.rollback() on connection c: the open transaction, if any, is discarded.
\* It raises on a closed connection, and when the connection is lost.
RollbackOutcomes(c) ==
    LET cr == conns[c]
    IN  IF cr.closed
        THEN {[raised |-> TRUE, conns |-> conns, db |-> db, fault |-> 0]}
        ELSE {[raised |-> FALSE, fault |-> 0, db |-> db,
               conns |-> [conns EXCEPT ![c] = Ended(cr)]]}
             \cup
             (IF MayFail /\ cr.status # "idle"
              THEN {[raised |-> TRUE, fault |-> 1, db |-> db,
                     conns |-> [conns EXCEPT ![c] = Closed(cr)]]}
              ELSE {})

\* ------------------------------------------------------- refresh history
\* The condition of lines 125-129 on given values of the manager's fields.
StaleOf(tok, exp, cn, cs, n) ==
    \/ tok = None
    \/ exp = None
    \/ n >= exp
    \/ cn = None
    \/ cs[cn].closed

Stale == StaleOf(token, token_expires_at, connection, conns, now)

\* The history of one staleness episode: it starts afresh whenever a usable
\* session turns stale, counts the token fetches and connects made since, and
\* notes a refresh that failed, that ended with the session stale again, or that
\* was under way when the session turned stale.
NewEpoch == [fetches |-> 0, connects |-> 0, failed |-> FALSE]

EpochNext(tok, exp, cn, cs, n, fetched, connected, failed) ==
    LET will == StaleOf(tok, exp, cn, cs, n)
    IN  IF ~Stale /\ will
        THEN [NewEpoch EXCEPT !.failed = \E t \in Threads : gc[t] \in {"fetch", "connect"}]
        ELSE [fetches |-> epoch.fetches + fetched,
              connects |-> epoch.connects + connected,
              failed |-> epoch.failed \/ failed \/ (connected = 1 /\ will)]

\* The effect of a database call's outcome o on the shared state.
DbApply(o) ==
    /\ conns' = o.conns
    /\ db' = o.db
    /\ faults' = faults + o.fault
    /\ epoch' = EpochNext(token, token_expires_at, connection, o.conns, now, 0, 0, FALSE)

\* ------------------------------------------------------------ control flow
CallSites ==
    {"ep_getconn", "ete_getconn", "init_getconn", "csm_getconn", "gm_getconn",
     "co_getconn", "go_getconn", "cl_getconn"}

\* Thread t goes to place p; r is its result if that ends its operation.
Go(t, p, r) ==
    /\ pc' = [pc EXCEPT ![t] = p]
    /\ gc' = [gc EXCEPT ![t] = IF p \in CallSites THEN "enter" ELSE "none"]
    /\ result' = IF p = "done" THEN [result EXCEPT ![t] = r] ELSE result

\* Where an exception that leaves initialize_database_with_sample_data (re-raised
\* at line 547) or a direct call of ensure_tables_exist lands: startup_event's
\* handler, initialize_database_endpoint's handler, or the caller.
InitHandler(o) ==
    CASE o = "startup" -> "su_except"
      [] o = "initialize" -> "ep_rollback"
      [] OTHER -> "done"

\* Where control goes when get_connection returns to the call site p.
AfterReturn(p) ==
    CASE p = "ep_getconn" -> "ete_getconn"
      [] p = "ete_getconn" -> "ete_create_menu"
      [] p = "init_getconn" -> "init_count"
      [] p = "csm_getconn" -> "csm_delete"
      [] p = "gm_getconn" -> "gm_select"
      [] p = "co_getconn" -> "co_count1"
      [] p = "go_getconn" -> "go_select"
      [] p = "cl_getconn" -> "cl_delete"

\* Where control goes when get_connection raises at the call site p in operation o:
\* only create_sample_menu_items' call is inside a try block (line 527) of this file.
AfterRaise(p, o) ==
    CASE p = "csm_getconn" -> "init_rollback"
      [] p \in {"ete_getconn", "init_getconn"} -> InitHandler(o)
      [] OTHER -> "done"

\* get_connection returns c to thread t: the local `conn` of the calling function.
Return(t, c) ==
    /\ Go(t, AfterReturn(pc[t]), "error")
    /\ conn' = IF pc[t] \in {"ep_getconn", "init_getconn"} THEN conn
               ELSE [conn EXCEPT ![t] = c]
    /\ connInit' = IF pc[t] = "init_getconn" THEN [connInit EXCEPT ![t] = c] ELSE connInit
    /\ connEp' = IF pc[t] = "ep_getconn" THEN [connEp EXCEPT ![t] = c] ELSE connEp

\* ------------------------------------------------------------ thread locals
\* What an action that assigns no local leaves of thread t's locals when it goes
\* to place p: once the operation has ended ("done": it has returned or raised
\* to the framework) its frames are gone; the arguments and the row of
\* create_order stay visible until the response is sent.
Keep(t, p) ==
    IF p = "done"
    THEN /\ conn' = [conn EXCEPT ![t] = None]
         /\ connInit' = [connInit EXCEPT ![t] = None]
         /\ connEp' = [connEp EXCEPT ![t] = None]
         /\ cnt' = [cnt EXCEPT ![t] = 0]
         /\ idx' = [idx EXCEPT ![t] = 0]
         /\ UNCHANGED <<arg, row>>
    ELSE UNCHANGED locals

\* The framework sends the response of thread t's operation (or startup ends) and
\* the thread is free for the next request.
respond(t) ==
    /\ pc[t] = "done"
    /\ pc' = [pc EXCEPT ![t] = "idle"]
    /\ op' = [op EXCEPT ![t] = "none"]
    /\ result' = [result EXCEPT ![t] = "none"]
    /\ arg' = [arg EXCEPT ![t] = NoArg]
    /\ row' = [row EXCEPT ![t] = NoRow]
    /\ request' = [request EXCEPT ![t] = NoRequest]
    /\ UNCHANGED <<server, now, manager, conns, db, faults, nextId, gc, conn, connInit,
                   connEp, cnt, idx, startupFailed, epoch>>

\* ------------------------------------------- DSQLConnectionManager.get_connection
\* A lock that never blocks.
lock_free_ignored == TRUE

\* `with self.lock` can be entered.
lock_free == lock = None

\* A manager that refreshes on every call.
NeedRefresh_always == TRUE

\* A manager that keeps a token until after its cached expiry.
NeedRefresh_late ==
    \/ token = None \/ token_expires_at = None \/ now > token_expires_at
    \/ connection = None \/ conns[connection].closed

\* The condition of lines 125-129.
NeedRefresh == StaleOf(token, token_expires_at, connection, conns, now)

\* Lines 123-129: take the lock and decide between refresh and reuse.
get_connection_enter(t) ==
    /\ gc[t] = "enter"
    /\ lock_free
    /\ lock' = t
    /\ gc' = [gc EXCEPT ![t] = IF NeedRefresh THEN "fetch" ELSE "reuse"]
    /\ UNCHANGED <<server, now, token, token_expires_at, connection, conns, issued, db,
                   faults, nextId, op, pc, locals, result, startupFailed, request, epoch>>

\* Line 132, get_fresh_token returning: the token and now + 55 minutes are cached.
get_fresh_token_ok(t) ==
    /\ gc[t] = "fetch"
    /\ issued < MaxTokens
    /\ issued' = issued + 1
    /\ token' = issued + 1
    /\ token_expires_at' = now + TokenTicks
    /\ gc' = [gc EXCEPT ![t] = "connect"]
    /\ epoch' = EpochNext(issued + 1, now + TokenTicks, connection, conns, now, 1, 0, FALSE)
    /\ UNCHANGED <<server, now, connection, lock, conns, db, faults, nextId, op, pc,
                   locals, result, startupFailed, request>>

\* A manager that swallows the failure of the token service and goes on to connect
\* with what it has cached.
get_fresh_token_swallowed(t) ==
    /\ gc[t] = "fetch"
    /\ MayFail
    /\ faults' = faults + 1
    /\ gc' = [gc EXCEPT ![t] = "connect"]
    /\ epoch' = EpochNext(token, token_expires_at, connection, conns, now, 1, 0, TRUE)
    /\ UNCHANGED <<server, now, token, token_expires_at, connection, lock, conns, issued,
                   db, nextId, op, pc, locals, result, startupFailed, request>>

\* A get_connection that keeps the lock when the token service fails.
get_fresh_token_raise_locked(t) ==
    /\ gc[t] = "fetch"
    /\ MayFail
    /\ faults' = faults + 1
    /\ Go(t, AfterRaise(pc[t], op[t]), "error")
    /\ Keep(t, AfterRaise(pc[t], op[t]))
    /\ epoch' = EpochNext(token, token_expires_at, connection, conns, now, 1, 0, TRUE)
    /\ UNCHANGED <<server, now, token, token_expires_at, connection, lock, conns, issued,
                   db, nextId, op, startupFailed, request>>

\* Line 132, get_fresh_token raising (lines 117-119): nothing is assigned, the
\* `with` block releases the lock, the exception reaches get_connection's caller.
get_fresh_token_raise(t) ==
    /\ gc[t] = "fetch"
    /\ MayFail
    /\ faults' = faults + 1
    /\ lock' = None
    /\ Go(t, AfterRaise(pc[t], op[t]), "error")
    /\ Keep(t, AfterRaise(pc[t], op[t]))
    /\ epoch' = EpochNext(token, token_expires_at, connection, conns, now, 1, 0, TRUE)
    /\ UNCHANGED <<server, now, token, token_expires_at, connection, conns, issued, db,
                   nextId, op, startupFailed, request>>

\* Lines 136-137: the connections after the manager closed its open connection.
CloseExisting ==
    IF connection # None /\ ~conns[connection].closed
    THEN [conns EXCEPT ![connection] = Closed(@)]
    ELSE conns

\* Lines 136-150 and 167, psycopg2.connect returning: the old connection is
\* closed, the new one is opened with the cached token and returned.
get_connection_connect_ok(t) ==
    /\ gc[t] = "connect"
    /\ Len(conns) < MaxConns
    /\ LET cs == Append(CloseExisting, NewConn(token, token_expires_at))
           c == Len(conns) + 1
       IN  /\ conns' = cs
           /\ connection' = c
           /\ epoch' = EpochNext(token, token_expires_at, c, cs, now, 0, 1, FALSE)
           /\ Return(t, c)
    /\ lock' = None
    /\ UNCHANGED <<server, now, token, token_expires_at, issued, db, faults, nextId, op,
                   cnt, idx, arg, row, startupFailed, request>>

\* Lines 136-150, psycopg2.connect raising: the old connection is already closed,
\* self.connection still names it, the new token stays cached, the lock is released.
get_connection_connect_raise(t) ==
    /\ gc[t] = "connect"
    /\ MayFail
    /\ faults' = faults + 1
    /\ conns' = CloseExisting
    /\ lock' = None
    /\ Go(t, AfterRaise(pc[t], op[t]), "error")
    /\ Keep(t, AfterRaise(pc[t], op[t]))
    /\ epoch' = EpochNext(token, token_expires_at, connection, CloseExisting, now, 0, 1, TRUE)
    /\ UNCHANGED <<server, now, token, token_expires_at, connection, issued, db, nextId,
                   op, startupFailed, request>>

\* A reuse that returns the connection as it is, without looking at its state.
get_connection_reuse_as_is(t) ==
    /\ gc[t] = "reuse"
    /\ lock' = None
    /\ Return(t, connection)
    /\ UNCHANGED <<server, now, token, token_expires_at, connection, conns, issued, db,
                   faults, nextId, op, cnt, idx, arg, row, startupFailed, request, epoch>>

\* Lines 154-165: what the else branch does to the connection.  The status is
\* read; an aborted transaction is rolled back (lines 155-157).  When the read or
\* that rollback raises, the handler of lines 158-165 tries a rollback and
\* swallows its error: after a failed status read the rollback discards whatever
\* transaction the connection holds, or meets the same broken connection.
ReuseOutcomes(c) ==
    LET cr == conns[c]
    IN  (IF cr.status = "inerror"
         THEN RollbackOutcomes(c)
         ELSE {[raised |-> FALSE, conns |-> conns, db |-> db, fault |-> 0]})
        \cup
        (IF MayFail
         THEN {[raised |-> TRUE, fault |-> 1, db |-> db,
                conns |-> [conns EXCEPT ![c] = Ended(cr)]],
               [raised |-> TRUE, fault |-> 1, db |-> db,
                conns |-> [conns EXCEPT ![c] = Closed(cr)]]}
         ELSE {})

\* A reuse that returns with the lock still held, for the caller's unit of work.
get_connection_reuse_locked(t) ==
    /\ gc[t] = "reuse"
    /\ \E o \in ReuseOutcomes(connection) : DbApply(o)
    /\ Return(t, connection)
    /\ UNCHANGED <<server, now, token, token_expires_at, connection, lock, issued, nextId,
                   op, cnt, idx, arg, row, startupFailed, request>>

\* Lines 153-167: the connection is reused: whatever the else branch met, it is
\* returned.
get_connection_reuse(t) ==
    /\ gc[t] = "reuse"
    /\ \E o \in ReuseOutcomes(connection) : DbApply(o)
    /\ lock' = None
    /\ Return(t, connection)
    /\ UNCHANGED <<server, now, token, token_expires_at, connection, issued, nextId, op,
                   cnt, idx, arg, row, startupFailed, request>>

\* ------------------------------------------------------------------ the clock
Tick ==
    /\ now < MaxTime
    /\ now' = now + 1
    /\ epoch' = EpochNext(token, token_expires_at, connection, conns, now + 1, 0, 0, FALSE)
    /\ UNCHANGED <<server, token, token_expires_at, connection, lock, conns, issued, db,
                   faults, nextId, op, pc, gc, locals, result, startupFailed, request>>

\* A database call by thread t whose outcome o decides only where it goes next.
DbStep(t, o, okPc, okResult, errPc, errResult) ==
    LET p == IF o.raised THEN errPc ELSE okPc
    IN  /\ DbApply(o)
        /\ Go(t, p, IF o.raised THEN errResult ELSE okResult)
        /\ Keep(t, p)
        /\ UNCHANGED <<server, now, manager, nextId, op, startupFailed, request>>

\* Thread t starts operation o at place p.
Begin(t, o, p) ==
    /\ server = "up"
    /\ pc[t] = "idle"
    /\ op' = [op EXCEPT ![t] = o]
    /\ Go(t, p, "error")
    /\ UNCHANGED <<server, now, manager, conns, db, faults, nextId, locals,
                   startupFailed, request, epoch>>

\* ------------------------------------------------------- ensure_tables_exist
\* The view after CREATE TABLE IF NOT EXISTS tbl.
WithTable(w, tbl) == [w EXCEPT !.tables = @ \cup {tbl}]

\* Where ensure_tables_exist returns to (line 236): its caller
\* initialize_database_with_sample_data goes on at line 524.
EnsureReturn(o) == IF o = "ensure" THEN "done" ELSE "init_getconn"

\* Lines 202-215: CREATE TABLE IF NOT EXISTS menu_items.
ete_create_menu(t) ==
    /\ pc[t] = "ete_create_menu"
    /\ \E o \in ExecOutcomes(conn[t], {}, 1, WithTable(View(conn[t]), "menu_items")) :
          DbStep(t, o, "ete_commit1", "ok", "ete_rollback", "error")

\* An ensure_tables_exist that goes on to the second CREATE TABLE without committing.
ete_commit1_skipped(t) ==
    /\ pc[t] = "ete_commit1"
    /\ Go(t, "ete_create_orders", "error")
    /\ UNCHANGED <<server, now, manager, conns, db, faults, nextId, op, locals,
                   startupFailed, request, epoch>>

\* Line 216: commit the first DDL statement.
ete_commit1(t) ==
    /\ pc[t] = "ete_commit1"
    /\ \E o \in CommitOutcomes(conn[t]) :
          DbStep(t, o, "ete_create_orders", "ok", "ete_rollback", "error")

\* Lines 220-232: CREATE TABLE IF NOT EXISTS orders.
ete_create_orders(t) ==
    /\ pc[t] = "ete_create_orders"
    /\ \E o \in ExecOutcomes(conn[t], {}, 1, WithTable(View(conn[t]), "orders")) :
          DbStep(t, o, "ete_commit2", "ok", "ete_rollback", "error")

\* Lines 233-236: commit the second DDL statement and return.
ete_commit2(t) ==
    /\ pc[t] = "ete_commit2"
    /\ \E o \in CommitOutcomes(conn[t]) :
          DbStep(t, o, EnsureReturn(op[t]), "ok", "ete_rollback", "error")

\* Lines 238-241: roll back and re-raise (an error of the rollback is raised
\* instead); the exception leaves initialize_database_with_sample_data too.
ete_rollback(t) ==
    /\ pc[t] = "ete_rollback"
    /\ \E o \in RollbackOutcomes(conn[t]) :
          DbStep(t, o, InitHandler(op[t]), "error", InitHandler(op[t]), "error")

\* ------------------------------------------------- create_sample_menu_items
\* Where initialize_database_with_sample_data returns to: startup_event goes on at
\* line 831, initialize_database_endpoint at line 802.
InitReturn(o) == IF o = "startup" THEN "su_done" ELSE "ep_count_menu"

\* Line 261: DELETE FROM menu_items.
csm_delete(t) ==
    /\ pc[t] = "csm_delete"
    /\ \E o \in ExecOutcomes(conn[t], {"menu_items"}, 0,
                             [View(conn[t]) EXCEPT !.menu = EmptyBag]) :
          /\ DbApply(o)
          /\ Go(t, IF o.raised THEN "csm_rollback" ELSE "csm_insert", "error")
          /\ idx' = [idx EXCEPT ![t] = 1]
    /\ UNCHANGED <<server, now, manager, nextId, op, conn, connInit, connEp, cnt, arg,
                   row, startupFailed, request>>

\* A loop that stops one item short.
csm_loop_done_early(i) == i = Len(sample_items) - 1

\* The loop of line 265 has inserted every sample item once i of them are in.
csm_loop_done(i) == i = Len(sample_items)

\* A population on a connection in autocommit mode: each INSERT that succeeds is
\* committed at once.
csm_insert_autocommit(t) ==
    /\ pc[t] = "csm_insert"
    /\ \E o \in ExecOutcomes(conn[t], {"menu_items"}, 0,
                             [View(conn[t]) EXCEPT
                                 !.menu = @ (+) SetToBag({MenuRow(idx[t])})]) :
          /\ DbApply(IF o.raised THEN o
                     ELSE [o EXCEPT !.db = o.conns[conn[t]].w,
                                    !.conns = [o.conns EXCEPT ![conn[t]] = Ended(@)]])
          /\ Go(t, IF o.raised THEN "csm_rollback"
                   ELSE IF csm_loop_done(idx[t]) THEN "csm_commit" ELSE "csm_insert",
                "error")
          /\ idx' = [idx EXCEPT ![t] = IF o.raised \/ csm_loop_done(@) THEN @ ELSE @ + 1]
    /\ UNCHANGED <<server, now, manager, nextId, op, conn, connInit, connEp, cnt, arg,
                   row, startupFailed, request>>

\* Lines 265-271: INSERT the next sample item.
csm_insert(t) ==
    /\ pc[t] = "csm_insert"
    /\ \E o \in ExecOutcomes(conn[t], {"menu_items"}, 0,
                             [View(conn[t]) EXCEPT
                                 !.menu = @ (+) SetToBag({MenuRow(idx[t])})]) :
          /\ DbApply(o)
          /\ Go(t, IF o.raised THEN "csm_rollback"
                   ELSE IF csm_loop_done(idx[t]) THEN "csm_commit" ELSE "csm_insert",
                "error")
          /\ idx' = [idx EXCEPT ![t] = IF o.raised \/ csm_loop_done(@) THEN @ ELSE @ + 1]
    /\ UNCHANGED <<server, now, manager, nextId, op, conn, connInit, connEp, cnt, arg,
                   row, startupFailed, request>>

\* Lines 274-276: commit all changes together; create_sample_menu_items and then
\* initialize_database_with_sample_data return.
csm_commit(t) ==
    /\ pc[t] = "csm_commit"
    /\ \E o \in CommitOutcomes(conn[t]) :
          DbStep(t, o, InitReturn(op[t]), "ok", "csm_rollback", "error")

\* Lines 278-282: roll back and re-raise, into the handler of line 539.
csm_rollback(t) ==
    /\ pc[t] = "csm_rollback"
    /\ \E o \in RollbackOutcomes(conn[t]) :
          DbStep(t, o, "init_rollback", "error", "init_rollback", "error")

\* ------------------------------------- initialize_database_with_sample_data
\* Lines 528-529: SELECT COUNT(*) FROM menu_items.
init_count(t) ==
    /\ pc[t] = "init_count"
    /\ \E o \in ExecOutcomes(connInit[t], {"menu_items"}, 0, View(connInit[t])) :
          /\ DbApply(o)
          /\ Go(t, IF o.raised THEN "init_rollback" ELSE "init_commit", "error")
          /\ cnt' = [cnt EXCEPT ![t] =
                        IF o.raised THEN @ ELSE BagCardinality(View(connInit[t]).menu)]
    /\ UNCHANGED <<server, now, manager, nextId, op, conn, connInit, connEp, idx, arg,
                   row, startupFailed, request>>

\* An initialization that creates the sample data whatever it counted.
seed_needed_always(count) == count >= 0

\* Line 534: the sample data is created when no menu item was counted.
seed_needed(count) == count = 0

\* Lines 532-538: commit the SELECT, then create the sample data or return.
init_commit(t) ==
    /\ pc[t] = "init_commit"
    /\ \E o \in CommitOutcomes(connInit[t]) :
          DbStep(t, o, IF seed_needed(cnt[t]) THEN "csm_getconn" ELSE InitReturn(op[t]),
                 "ok", "init_rollback", "error")

\* Lines 539-547: roll back and re-raise to the caller's handler.
init_rollback(t) ==
    /\ pc[t] = "init_rollback"
    /\ \E o \in RollbackOutcomes(connInit[t]) :
          DbStep(t, o, InitHandler(op[t]), "error", InitHandler(op[t]), "error")

\* -------------------------------------------------------------- startup_event
\* Lines 826-830: the startup event calls initialize_database_with_sample_data.
startup_event(t) ==
    /\ server = "starting"
    /\ t = MainThread
    /\ pc[t] = "idle"
    /\ op' = [op EXCEPT ![t] = "startup"]
    /\ Go(t, "ete_getconn", "error")
    /\ UNCHANGED <<server, now, manager, conns, db, faults, nextId, locals,
                   startupFailed, request, epoch>>

\* Line 831: initialization complete; the server goes on to serve requests.
startup_done(t) ==
    /\ pc[t] = "su_done"
    /\ server' = "up"
    /\ Go(t, "done", "ok")
    /\ Keep(t, "done")
    /\ UNCHANGED <<now, manager, conns, db, faults, nextId, op, startupFailed, request, epoch>>

\* A startup_event that re-raises: the server stops.
server_stopped == "stopped"

\* The state of the server after startup_event caught an exception (lines
\* 832-834: "Continue anyway").
server_after_failed_startup == "up"

\* Lines 832-834: the exception is logged and swallowed.
startup_except(t) ==
    /\ pc[t] = "su_except"
    /\ server' = server_after_failed_startup
    /\ startupFailed' = TRUE
    /\ Go(t, "done", "startup_failed")
    /\ Keep(t, "done")
    /\ UNCHANGED <<now, manager, conns, db, faults, nextId, op, epoch, request>>

\* ----------------------------------------------- initialize_database_endpoint
\* Lines 792-799: POST /api/initialize takes a connection, then initializes.
initialize_database_endpoint(t) == Begin(t, "initialize", "ep_getconn")

\* Lines 802-803: SELECT COUNT(*) FROM menu_items on the endpoint's connection.
ep_count_menu(t) ==
    /\ pc[t] = "ep_count_menu"
    /\ \E o \in ExecOutcomes(connEp[t], {"menu_items"}, 0, View(connEp[t])) :
          DbStep(t, o, "ep_count_orders", "ok", "ep_rollback", "error")

\* Lines 805-806: SELECT COUNT(*) FROM orders.
ep_count_orders(t) ==
    /\ pc[t] = "ep_count_orders"
    /\ \E o \in ExecOutcomes(connEp[t], {"orders"}, 0, View(connEp[t])) :
          DbStep(t, o, "ep_commit", "ok", "ep_rollback", "error")

\* Lines 809-816: commit the read transaction and answer with the counts.
ep_commit(t) ==
    /\ pc[t] = "ep_commit"
    /\ \E o \in CommitOutcomes(connEp[t]) :
          DbStep(t, o, "done", "ok", "ep_rollback", "error")

\* Lines 818-822: roll back and answer 500.
ep_rollback(t) ==
    /\ pc[t] = "ep_rollback"
    /\ \E o \in RollbackOutcomes(connEp[t]) :
          DbStep(t, o, "done", "error", "done", "error")

\* A direct call of ensure_tables_exist (line 192), as in the sample scenario.
ensure_tables_exist(t) == Begin(t, "ensure", "ete_getconn")

\* -------------------------------------------------------------- get_menu_items
\* Lines 287-288: GET /api/menu takes a connection.
get_menu_items(t) == Begin(t, "get_menu", "gm_getconn")

\* Lines 291-310: SELECT the available menu items.
gm_select(t) ==
    /\ pc[t] = "gm_select"
    /\ \E o \in ExecOutcomes(conn[t], {"menu_items"}, 0, View(conn[t])) :
          DbStep(t, o, "gm_commit", "ok", "gm_rollback", "error")

\* Lines 313-316: commit the read transaction and return the items.
gm_commit(t) ==
    /\ pc[t] = "gm_commit"
    /\ \E o \in CommitOutcomes(conn[t]) :
          DbStep(t, o, "done", "ok", "gm_rollback", "error")

\* Lines 318-323: roll back and return the sample data as fallback; an error of
\* the rollback leaves the function.
gm_rollback(t) ==
    /\ pc[t] = "gm_rollback"
    /\ \E o \in RollbackOutcomes(conn[t]) :
          DbStep(t, o, "done", "fallback", "done", "error")

\* -------------------------------------------------------------- get_all_orders
\* Lines 413-414: GET /api/orders takes a connection.
get_all_orders(t) == Begin(t, "get_orders", "go_getconn")

\* Lines 417-434: SELECT all orders.
go_select(t) ==
    /\ pc[t] = "go_select"
    /\ \E o \in ExecOutcomes(conn[t], {"orders"}, 0, View(conn[t])) :
          DbStep(t, o, "go_commit", "ok", "go_rollback", "error")

\* Lines 437-440: commit the read transaction and return the orders.
go_commit(t) ==
    /\ pc[t] = "go_commit"
    /\ \E o \in CommitOutcomes(conn[t]) :
          DbStep(t, o, "done", "ok", "go_rollback", "error")

\* Lines 442-446: roll back and return the empty list.
go_rollback(t) ==
    /\ pc[t] = "go_rollback"
    /\ \E o \in RollbackOutcomes(conn[t]) :
          DbStep(t, o, "done", "fallback", "done", "error")

\* ------------------------------------------------------------ clear_all_orders
\* Lines 760-761: DELETE /api/orders/clear takes a connection.
clear_all_orders(t) == Begin(t, "clear_orders", "cl_getconn")

\* Line 765: DELETE FROM orders.
cl_delete(t) ==
    /\ pc[t] = "cl_delete"
    /\ \E o \in ExecOutcomes(conn[t], {"orders"}, 0,
                             [View(conn[t]) EXCEPT !.orders = {}]) :
          DbStep(t, o, "cl_commit", "ok", "cl_rollback", "error")

\* A clear_all_orders that answers without committing.
cl_commit_skipped(t) ==
    /\ pc[t] = "cl_commit"
    /\ Go(t, "done", "ok")
    /\ Keep(t, "done")
    /\ UNCHANGED <<server, now, manager, conns, db, faults, nextId, op,
                   startupFailed, request, epoch>>

\* Lines 768-772: commit and answer.
cl_commit(t) ==
    /\ pc[t] = "cl_commit"
    /\ \E o \in CommitOutcomes(conn[t]) :
          DbStep(t, o, "done", "ok", "cl_rollback", "error")

\* Lines 774-778: roll back and answer 500.
cl_rollback(t) ==
    /\ pc[t] = "cl_rollback"
    /\ \E o \in RollbackOutcomes(conn[t]) :
          DbStep(t, o, "done", "error", "done", "error")

\* ---------------------------------------------------------------- create_order
\* Strings are sequences of characters; three kinds of character matter to
\* sanitize_string: a letter, a blank, the null byte.
Alphabet == {"a", " ", "NUL"}
MaxStr == 2          \* length of the strings submitted
StringsUpTo(n) == UNION {[1..k -> Alphabet] : k \in 0..n}

RECURSIVE RemoveNul(_)
RemoveNul(s) ==
    IF s = <<>> THEN <<>>
    ELSE IF Head(s) = "NUL" THEN RemoveNul(Tail(s))
    ELSE <<Head(s)>> \o RemoveNul(Tail(s))

Truncate(s, n) == SubSeq(s, 1, Min(Len(s), n))

RECURSIVE LStrip(_)
LStrip(s) == IF s # <<>> /\ Head(s) = " " THEN LStrip(Tail(s)) ELSE s

RECURSIVE RStrip(_)
RStrip(s) ==
    IF s # <<>> /\ s[Len(s)] = " " THEN RStrip(SubSeq(s, 1, Len(s) - 1)) ELSE s

\* Lines 172-182: drop null bytes, truncate to max_length, strip whitespace.
sanitize_string(value, max_length) ==
    IF value = <<>> THEN <<>>
    ELSE RStrip(LStrip(Truncate(RemoveNul(value), max_length)))

\* The max_length create_order passes (lines 328-329).
FieldLength == 255
\* The greatest total_amount create_order accepts (line 337).
TotalLimit == 100000

\* Amounts of money are integers counting thousandths of the currency unit: one
\* decimal digit more than the NUMERIC(10, 2) columns keep (lines 208, 227).
Cent == 10
Unit == 100 * Cent

\* What a NUMERIC(10, 2) column stores of a non-negative amount: the amount
\* rounded to the nearest cent, a half rounded up.
RoundToCents(amount) == ((amount + Cent \div 2) \div Cent) * Cent

NameInputs == StringsUpTo(MaxStr)
EmailInputs == {<<>>, <<"NUL">>, <<" ", "a">>}
ItemsInputs == {[isList |-> FALSE, len |-> 1], [isList |-> TRUE, len |-> 0],
                [isList |-> TRUE, len |-> 1]}
TotalInputs == {-1, 0, 1, TotalLimit * Unit, TotalLimit * Unit + 1}

\* A create_order that does not check the upper limit of total_amount.
create_order_accepts_any_total(name, email, items, total) ==
    /\ ~(name = <<>> \/ email = <<>>)
    /\ ~(~items.isList \/ items.len = 0)
    /\ ~(total <= 0)

\* Lines 331-338: the three checks create_order makes on its sanitized arguments.
create_order_accepts(name, email, items, total) ==
    /\ ~(name = <<>> \/ email = <<>>)
    /\ ~(~items.isList \/ items.len = 0)
    /\ ~(total <= 0 \/ total > TotalLimit * Unit)

\* Lines 328-340: what create_order does with the arguments (nm, em, it, tot)
\* before any database work: it sanitizes name and email, then raises ValueError
\* (it ends, p = "done") or goes on to get_connection.
create_order_entry(nm, em, it, tot) ==
    LET name == sanitize_string(nm, FieldLength)
        email == sanitize_string(em, FieldLength)
    IN  [p |-> IF create_order_accepts(name, email, it, tot) THEN "co_getconn" ELSE "done",
         arg |-> [name |-> name, email |-> email, items |-> it, total |-> tot,
                  id |-> None]]

\* The ways a call of create_order can start, over all the arguments submitted.
CreateOrderEntries ==
    {create_order_entry(nm, em, it, tot) :
        nm \in NameInputs, em \in EmailInputs, it \in ItemsInputs, tot \in TotalInputs}

\* Lines 325-340: create_order is called.  (Nothing before line 340 reads or
\* writes shared state: the call and its checks are one step.)
create_order(t) ==
    /\ server = "up"
    /\ pc[t] = "idle"
    /\ nextId < MaxOrders
    /\ op' = [op EXCEPT ![t] = "create_order"]
    /\ \E e \in CreateOrderEntries :
          /\ Go(t, e.p, "ValueError")
          /\ arg' = [arg EXCEPT ![t] = e.arg]
    /\ UNCHANGED <<server, now, manager, conns, db, faults, nextId, conn, connInit,
                   connEp, cnt, idx, row, startupFailed, request, epoch>>

\* The row the INSERT of lines 357-360 stores: total_amount is NUMERIC(10, 2).
OrderRow(a) ==
    [id |-> a.id, customer_name |-> a.name, customer_email |-> a.email,
     total_amount |-> RoundToCents(a.total)]

\* Lines 344-353: a fresh order_id (uuid4), then SELECT COUNT(*) FROM orders.
co_count1(t) ==
    /\ pc[t] = "co_count1"
    /\ nextId' = nextId + 1
    /\ arg' = [arg EXCEPT ![t].id = nextId + 1]
    /\ \E o \in ExecOutcomes(conn[t], {"orders"}, 0, View(conn[t])) :
          /\ DbApply(o)
          /\ Go(t, IF o.raised THEN "co_rollback" ELSE "co_insert", "error")
    /\ UNCHANGED <<server, now, manager, op, conn, connInit, connEp, cnt, idx, row,
                   startupFailed, request>>

\* Lines 356-361: INSERT the order.
co_insert(t) ==
    /\ pc[t] = "co_insert"
    /\ \E o \in ExecOutcomes(conn[t], {"orders"}, 0,
                             [View(conn[t]) EXCEPT !.orders = @ \cup {OrderRow(arg[t])}]) :
          DbStep(t, o, "co_count2", "ok", "co_rollback", "error")

\* Lines 364-366: SELECT COUNT(*) FROM orders again.
co_count2(t) ==
    /\ pc[t] = "co_count2"
    /\ \E o \in ExecOutcomes(conn[t], {"orders"}, 0, View(conn[t])) :
          DbStep(t, o, "co_select", "ok", "co_rollback", "error")

\* The rows a SELECT ... WHERE id = order_id sees in view w.
RowsById(w, id) == {r \in w.orders : r.id = id}

\* A create_order without the fallback query: an order it cannot read back is an
\* error.
co_select_without_fallback(t) ==
    /\ pc[t] = "co_select"
    /\ \E o \in ExecOutcomes(conn[t], {"orders"}, 0, View(conn[t])) :
          LET found == RowsById(View(conn[t]), arg[t].id)
          IN  /\ DbApply(o)
              /\ Go(t, IF o.raised THEN "co_rollback"
                       ELSE IF found = {} THEN "co_rollback" ELSE "co_commit", "error")
              /\ row' = [row EXCEPT ![t] =
                            IF o.raised \/ found = {} THEN NoRow
                            ELSE CHOOSE r \in found : TRUE]
    /\ UNCHANGED <<server, now, manager, nextId, op, conn, connInit, connEp, cnt, idx,
                   arg, startupFailed, request>>

\* Lines 369-375: SELECT the order by its id; without a row, fall back.
co_select(t) ==
    /\ pc[t] = "co_select"
    /\ \E o \in ExecOutcomes(conn[t], {"orders"}, 0, View(conn[t])) :
          LET found == RowsById(View(conn[t]), arg[t].id)
          IN  /\ DbApply(o)
              /\ Go(t, IF o.raised THEN "co_rollback"
                       ELSE IF found = {} THEN "co_fallback" ELSE "co_commit", "error")
              /\ row' = [row EXCEPT ![t] =
                            IF o.raised \/ found = {} THEN NoRow
                            ELSE CHOOSE r \in found : TRUE]
    /\ UNCHANGED <<server, now, manager, nextId, op, conn, connInit, connEp, cnt, idx,
                   arg, startupFailed, request>>

\* The rows ORDER BY created_at DESC LIMIT 1 can return from view w: order ids are
\* handed out in the order of the calls, the latest row is the one with the
\* greatest.
MostRecent(w) == {r \in w.orders : \A q \in w.orders : q.id <= r.id}

\* Lines 376-385: SELECT the most recent order; without a row, raise.
co_fallback(t) ==
    /\ pc[t] = "co_fallback"
    /\ \E o \in ExecOutcomes(conn[t], {"orders"}, 0, View(conn[t])) :
          LET found == MostRecent(View(conn[t]))
          IN  /\ DbApply(o)
              /\ Go(t, IF o.raised \/ found = {} THEN "co_rollback" ELSE "co_commit",
                    "error")
              /\ row' = [row EXCEPT ![t] =
                            IF o.raised \/ found = {} THEN NoRow
                            ELSE CHOOSE r \in found : TRUE]
    /\ UNCHANGED <<server, now, manager, nextId, op, conn, connInit, connEp, cnt, idx,
                   arg, startupFailed, request>>

\* Lines 397-401: commit and return the row read.
co_commit(t) ==
    /\ pc[t] = "co_commit"
    /\ \E o \in CommitOutcomes(conn[t]) :
          DbStep(t, o, "done", "ok", "co_rollback", "error")

\* A create_order that re-raises without rolling back.
co_rollback_skipped(t) ==
    /\ pc[t] = "co_rollback"
    /\ Go(t, "done", "error")
    /\ Keep(t, "done")
    /\ UNCHANGED <<server, now, manager, conns, db, faults, nextId, op,
                   startupFailed, request, epoch>>

\* Lines 403-409: roll back and re-raise.
co_rollback(t) ==
    /\ pc[t] = "co_rollback"
    /\ \E o \in RollbackOutcomes(conn[t]) :
          DbStep(t, o, "done", "error", "done", "error")

\* ------------------------------------------ POST /api/orders (OrderCreate)
\* The text of an order line's `id`: the UUID it denotes (None when uuid.UUID
\* rejects the text) and the letter case it is written in.
IdInputs ==
    {[uuid |-> 1, upper |-> FALSE], [uuid |-> 1, upper |-> TRUE],
     [uuid |-> 2, upper |-> FALSE], [uuid |-> None, upper |-> FALSE]}

\* Unit prices and quantities submitted: 0.125 once, 2.000 twice.
PriceInputs == {[price |-> Cent * 12 + 5, quantity |-> 1], [price |-> 2 * Unit, quantity |-> 2]}

LineInputs ==
    {[id |-> i, price |-> pq.price, quantity |-> pq.quantity] :
        i \in IdInputs, pq \in PriceInputs}

MaxLines == 2        \* lines of a submitted order
LinesInputs == UNION {[1..k -> LineInputs] : k \in 0..MaxLines}

\* The limits of OrderItemCreate's fields (lines 606-607) and of OrderCreate.items
\* (line 621).
PriceLimit == 10000
QuantityLimit == 100
MaxItems == 50

\* Lines 609-616: uuid.UUID(v) parses the text, in either letter case; the text
\* itself is returned.
validate_uuid(v) == v.uuid # None

\* Lines 603-616: an order line passes OrderItemCreate.
OrderItemCreate(line) ==
    /\ validate_uuid(line.id)
    /\ line.price > 0 /\ line.price <= PriceLimit * Unit
    /\ line.quantity >= 1 /\ line.quantity <= QuantityLimit

\* Lines 642-648: validate_items compares the id texts as submitted:
\* len(item_ids) != len(set(item_ids)).
validate_items(lines) ==
    Cardinality({lines[i].id : i \in 1..Len(lines)}) = Len(lines)

\* Line 698: total_amount = sum(item.price * item.quantity for item in order.items).
RECURSIVE order_total(_)
order_total(lines) ==
    IF lines = <<>> THEN 0
    ELSE Head(lines).price * Head(lines).quantity + order_total(Tail(lines))

\* The customer every submission names (the name and email validators of lines
\* 623-640 accept them).
Customer == [name |-> <<"a">>, email |-> <<"a">>]

\* Lines 618-648 and 694-718: what POST /api/orders does with the submitted lines
\* before any database work: the request validation answers 422 (naming the
\* duplication when validate_items raised), or create_order_endpoint computes the
\* total and calls create_order, whose ValueError is answered with 422 too.
create_order_endpoint_entry(lines) ==
    LET items == [isList |-> TRUE, len |-> Len(lines), lines |-> lines]
        e == create_order_entry(Customer.name, Customer.email, items, order_total(lines))
    IN  IF ~(Len(lines) >= 1 /\ Len(lines) <= MaxItems
             /\ \A i \in 1..Len(lines) : OrderItemCreate(lines[i]))
        THEN [p |-> "done", r |-> "422_invalid", arg |-> [NoArg EXCEPT !.items = items]]
        ELSE IF ~validate_items(lines)
        THEN [p |-> "done", r |-> "422_duplicate", arg |-> [NoArg EXCEPT !.items = items]]
        ELSE [p |-> e.p, r |-> "422_ValueError", arg |-> e.arg]

PostOrderEntries == {create_order_endpoint_entry(lines) : lines \in LinesInputs}

\* Lines 694-712: POST /api/orders is received.  (Nothing before create_order's
\* get_connection reads or writes shared state: one step.)
create_order_endpoint(t) ==
    /\ server = "up"
    /\ pc[t] = "idle"
    /\ nextId < MaxOrders
    /\ op' = [op EXCEPT ![t] = "post_order"]
    /\ \E e \in PostOrderEntries :
          /\ Go(t, e.p, e.r)
          /\ arg' = [arg EXCEPT ![t] = e.arg]
    /\ UNCHANGED <<server, now, manager, conns, db, faults, nextId, conn, connInit,
                   connEp, cnt, idx, row, startupFailed, request, epoch>>

\* --------------------------------------------------- validate_request (gateway)
\* Lines 54-60: the signatures looked for in the URL.
suspicious_patterns ==
    {"../", "..\\", "<script", "<%", "DROP TABLE", "DELETE FROM", "NUL", "cmd=", "exec("}

\* A URL is a sequence of pieces of text; a signature lies within one piece.
UrlPieces == {"/api/menu", "?page=1", "../", "drop table", "Drop Table", "<SCRIPT", "CMD="}

\* str.lower() on the pieces and patterns.
Lower(text) ==
    CASE text \in {"DROP TABLE", "Drop Table"} -> "drop table"
      [] text = "DELETE FROM" -> "delete from"
      [] text = "<SCRIPT" -> "<script"
      [] text = "CMD=" -> "cmd="
      [] OTHER -> text

\* Lines 63-64, as written without .lower(): a case-sensitive search.
url_matches_exact(url, pattern) == \E i \in 1..Len(url) : url[i] = pattern

\* Lines 63-64: pattern.lower() in path.lower().
url_matches(url, pattern) == \E i \in 1..Len(url) : Lower(url[i]) = Lower(pattern)

\* The limit of line 76.
BodyLimit == 1048576

\* int(content_length) of line 75 on a text of characters: decimal digits give
\* their number, anything else raises ValueError (None).
Digits == <<"0", "1", "2", "3", "4", "5", "6", "7", "8", "9">>
DigitOf(c) == (CHOOSE d \in 1..10 : Digits[d] = c) - 1
IsDigits(text) ==
    text # <<>> /\ \A i \in 1..Len(text) : \E d \in 1..10 : Digits[d] = text[i]
RECURSIVE DigitsValue(_)
DigitsValue(text) ==
    IF text = <<>> THEN 0
    ELSE 10 * DigitsValue(SubSeq(text, 1, Len(text) - 1)) + DigitOf(text[Len(text)])

\* Lines 62-85: the response of the middleware, or "pass" when it calls the route.
validate_request_verdict(r) ==
    IF \E pattern \in suspicious_patterns : url_matches(r.url, pattern) THEN "400"
    ELSE IF /\ r.content_length.present /\ r.content_length.text # <<>>
            /\ IsDigits(r.content_length.text)
            /\ DigitsValue(r.content_length.text) > BodyLimit THEN "413"
    ELSE "pass"

UrlInputs == {<<"/api/menu">>} \cup {<<"/api/menu", piece>> : piece \in UrlPieces}
ContentLengthInputs ==
    {[present |-> FALSE, text |-> <<>>],
     [present |-> TRUE, text |-> <<>>],
     [present |-> TRUE, text |-> <<"1", "0", "4", "8", "5", "7", "6">>],
     [present |-> TRUE, text |-> <<"1", "0", "4", "8", "5", "7", "7">>],
     [present |-> TRUE, text |-> <<"2", "0", "0", "0", "0", "0", "0">>],
     [present |-> TRUE, text |-> <<"a", "b", "c">>],
     [present |-> TRUE, text |-> <<"1", "x">>]}
RequestInputs == [url : UrlInputs, content_length : ContentLengthInputs]

\* Lines 50-85 and 670-674: a request for GET /api/menu reaches the middleware,
\* which answers it or hands it to the route, whose handler calls get_menu_items.
validate_request(t) ==
    /\ server = "up"
    /\ pc[t] = "idle"
    /\ \E r \in RequestInputs :
          LET v == validate_request_verdict(r)
          IN  /\ request' = [request EXCEPT ![t] = r]
              /\ op' = [op EXCEPT ![t] = IF v = "pass" THEN "get_menu" ELSE "rejected"]
              /\ Go(t, IF v = "pass" THEN "gm_getconn" ELSE "done", v)
    /\ UNCHANGED <<server, now, manager, conns, db, faults, nextId, locals,
                   startupFailed, epoch>>

\* ------------------------------------------------------------ specifications
\* The process after the module is loaded (lines 96-100, 170), before the
\* startup event, against a database holding d.
InitWith(d) ==
    /\ server = "starting"
    /\ now = 0
    /\ token = None
    /\ token_expires_at = None
    /\ connection = None
    /\ lock = None
    /\ conns = <<>>
    /\ issued = 0
    /\ db = d
    /\ faults = 0
    /\ nextId = 0
    /\ op = [t \in Threads |-> "none"]
    /\ pc = [t \in Threads |-> "idle"]
    /\ gc = [t \in Threads |-> "none"]
    /\ conn = [t \in Threads |-> None]
    /\ connInit = [t \in Threads |-> None]
    /\ connEp = [t \in Threads |-> None]
    /\ cnt = [t \in Threads |-> 0]
    /\ idx = [t \in Threads |-> 0]
    /\ arg = [t \in Threads |-> NoArg]
    /\ row = [t \in Threads |-> NoRow]
    /\ result = [t \in Threads |-> "none"]
    /\ startupFailed = FALSE
    /\ epoch = NewEpoch
    /\ request = [t \in Threads |-> NoRequest]

\* get_connection, as run by thread t, and the end of its operation.
Session(t) ==
    \/ get_connection_enter(t)
    \/ get_fresh_token_ok(t)
    \/ get_fresh_token_raise(t)
    \/ get_connection_connect_ok(t)
    \/ get_connection_connect_raise(t)
    \/ get_connection_reuse(t)
    \/ respond(t)

\* Schema initialisation at startup, short of creating the sample data.
Startup(t) ==
    \/ startup_event(t)
    \/ ete_create_menu(t) \/ ete_commit1(t) \/ ete_create_orders(t)
    \/ ete_commit2(t) \/ ete_rollback(t)
    \/ init_count(t) \/ init_commit(t) \/ init_rollback(t)
    \/ startup_done(t) \/ startup_except(t)

Seeding(t) ==
    \/ csm_delete(t) \/ csm_insert(t) \/ csm_commit(t) \/ csm_rollback(t)

Initialize(t) ==
    \/ initialize_database_endpoint(t)
    \/ ep_count_menu(t) \/ ep_count_orders(t) \/ ep_commit(t) \/ ep_rollback(t)
    \/ ensure_tables_exist(t)

Menu(t) ==
    \/ get_menu_items(t) \/ gm_select(t) \/ gm_commit(t) \/ gm_rollback(t)

\* create_order without its fallback query, which one request at a time never
\* reaches (its own INSERT is visible to its SELECT).
OrdersAlone(t) ==
    \/ create_order(t) \/ co_count1(t) \/ co_insert(t)
    \/ co_count2(t) \/ co_select(t) \/ co_commit(t) \/ co_rollback(t)

Readers(t) ==
    \/ get_all_orders(t) \/ go_select(t) \/ go_commit(t) \/ go_rollback(t)

\* First boot, one request at a time: the service starts against an empty
\* database; its main thread runs the startup event, then POST /api/initialize,
\* GET /api/menu and direct calls of ensure_tables_exist, one after the other.
BootThreads == {MainThread}
Init == InitWith(EmptyDB)
Next ==
    Tick \/ \E t \in BootThreads :
                Session(t) \/ Startup(t) \/ Seeding(t) \/ Initialize(t) \/ Menu(t)
Spec == Init /\ [][Next]_vars

\* A later boot, concurrent requests: the service starts against the database an
\* earlier run initialised, and its threads serve GET /api/orders concurrently.
InitSession == InitWith(SeededDB)
NextSession == Tick \/ \E t \in Threads : Session(t) \/ Startup(t) \/ Readers(t)
SpecSession == InitSession /\ [][NextSession]_vars

\* A later boot, one request at a time: the main thread serves POST /api/orders.
NextOrders == Tick \/ \E t \in BootThreads : Session(t) \/ Startup(t) \/ OrdersAlone(t)
SpecOrders == InitSession /\ [][NextOrders]_vars

\* create_order with its fallback query.
Orders(t) == OrdersAlone(t) \/ co_fallback(t)

\* An order an earlier run committed (its id is older than any handed out now).
OldOrder ==
    [id |-> 0, customer_name |-> <<"a", " ", "a">>, customer_email |-> <<"a">>,
     total_amount |-> 2 * Unit]

\* A later boot, concurrent requests on the one shared connection: the database
\* holds the seeds and an earlier order; the threads serve POST /api/orders and
\* GET /api/orders concurrently.  The clock stands still (no token expires).
InitShared == InitWith([SeededDB EXCEPT !.orders = {OldOrder}])
NextShared == \E t \in Threads : Session(t) \/ Startup(t) \/ Orders(t) \/ Readers(t)
SpecShared == InitShared /\ [][NextShared]_vars

\* POST /api/orders: the endpoint and the database work of create_order.
PostOrder(t) ==
    \/ create_order_endpoint(t) \/ co_count1(t) \/ co_insert(t)
    \/ co_count2(t) \/ co_select(t) \/ co_commit(t) \/ co_rollback(t)

\* A later boot, one request at a time: the main thread serves POST /api/orders
\* with the lines submitted.  The clock stands still.
NextEndpoint == \E t \in BootThreads : Session(t) \/ Startup(t) \/ PostOrder(t)
SpecEndpoint == InitSession /\ [][NextEndpoint]_vars

\* Concurrent requests on the one shared connection, the orders table empty or
\* holding an earlier order: the main thread serves POST /api/orders, a second
\* thread GET /api/orders.  The clock stands still.
InitFallback == \E d \in {SeededDB, [SeededDB EXCEPT !.orders = {OldOrder}]} : InitWith(d)
OrderThreads == {MainThread, MainThread + 1}
NextFallback ==
    \E t \in OrderThreads :
        \/ Session(t) \/ Startup(t)
        \/ t = MainThread /\ Orders(t)
        \/ t # MainThread /\ Readers(t)
SpecFallback == InitFallback /\ [][NextFallback]_vars

\* DELETE /api/orders/clear.
Clear(t) == clear_all_orders(t) \/ cl_delete(t) \/ cl_commit(t) \/ cl_rollback(t)

\* First boot, one request at a time, every data-access operation: the main
\* thread runs the startup event and then serves the initialization, the menu,
\* the orders and the clearing of the orders, one request after the other.  An
\* order's customer name and email are the same text here.
NextSequential ==
    Tick \/ \E t \in BootThreads :
                \/ Session(t) \/ Startup(t) \/ Seeding(t) \/ Initialize(t) \/ Menu(t)
                \/ OrdersAlone(t) /\ arg'[t].email = arg'[t].name
                \/ Readers(t) \/ Clear(t)
SpecSequential == Init /\ [][NextSequential]_vars

\* First boot, concurrent requests: after the startup event each thread serves
\* one POST /api/initialize, concurrently on the one shared connection.  The
\* clock stands still.
NextInitialize ==
    \E t \in Threads :
        \/ get_connection_enter(t)
        \/ get_fresh_token_ok(t) \/ get_fresh_token_raise(t)
        \/ get_connection_connect_ok(t) \/ get_connection_connect_raise(t)
        \/ get_connection_reuse(t)
        \/ op[t] = "startup" /\ respond(t)
        \/ Startup(t) \/ Seeding(t)
        \/ initialize_database_endpoint(t)
        \/ ep_count_menu(t) \/ ep_count_orders(t) \/ ep_commit(t) \/ ep_rollback(t)
SpecInitialize == Init /\ [][NextInitialize]_vars

\* The steps of get_connection inside the lock: the token service and the
\* connect call answer or fail, the reuse branch runs to its return.
InsideLock(t) ==
    \/ get_fresh_token_ok(t) \/ get_fresh_token_raise(t)
    \/ get_connection_connect_ok(t) \/ get_connection_connect_raise(t)
    \/ get_connection_reuse(t)

\* A later boot, concurrent requests for GET /api/orders, the clock standing
\* still.  The token service and the connect call terminate, each thread inside
\* the lock keeps running, and a thread waiting for the lock gets it if the lock
\* is free again and again.
NextLive == \E t \in Threads : Session(t) \/ Startup(t) \/ Readers(t)
SpecLive ==
    /\ InitSession /\ [][NextLive]_vars
    /\ \A t \in Threads : WF_vars(InsideLock(t)) /\ SF_vars(get_connection_enter(t))

\* A later boot, one request at a time: the database holds the seeds and an
\* earlier order; the main thread serves POST /api/orders and
\* DELETE /api/orders/clear.
NextClear ==
    Tick \/ \E t \in BootThreads : Session(t) \/ Startup(t) \/ OrdersAlone(t) \/ Clear(t)
SpecClear == InitShared /\ [][NextClear]_vars

\* GET /api/menu behind the middleware.
Gateway(t) ==
    \/ validate_request(t) \/ gm_select(t) \/ gm_commit(t) \/ gm_rollback(t)

\* A later boot, one request at a time: the main thread serves the requests for
\* GET /api/menu that reach the middleware.  The clock stands still.
NextGateway == \E t \in BootThreads : Session(t) \/ Startup(t) \/ Gateway(t)
SpecGateway == InitSession /\ [][NextGateway]_vars

\* ======================================================================
\* Properties
\* ======================================================================
\* Thread t is inside the refresh section of get_connection (lines 131-150).
InRefresh(t) == gc[t] \in {"fetch", "connect"}

\* C1 (SpecSession): at most one thread is inside the refresh section of
\* get_connection at any time: two callers never fetch a token or connect at the
\* same time, and the thread inside holds the lock.
C1_RefreshMutualExclusion ==
    \A t1, t2 \in Threads :
        InRefresh(t1) /\ InRefresh(t2) => t1 = t2 /\ lock = t1

\* One thread refreshes while another caller waits for the lock.
C1_Witness ==
    \E t1, t2 \in Threads : t1 # t2 /\ InRefresh(t1) /\ gc[t2] = "enter"

\* C2 (SpecSession): in a staleness episode whose refresh did not fail and did not
\* end stale again (nothing expired or was closed in between), however many
\* callers came, at most one token fetch and one connect happen, exactly one of
\* each once the refresh is over and the session usable, and every caller then
\* holds the manager's one open connection.
C2_NoDuplicateRefresh ==
    ~epoch.failed =>
        /\ epoch.fetches <= 1
        /\ epoch.connects <= 1
        /\ (~Stale /\ \A t \in Threads : ~InRefresh(t)) =>
               /\ epoch.fetches = 1 /\ epoch.connects = 1
               /\ \A t \in Threads : conn[t] # None /\ ~conns[conn[t]].closed
                                          => conn[t] = connection

\* Two callers hold the same connection after the one refresh of the episode.
C2_Witness ==
    /\ ~epoch.failed /\ ~Stale /\ epoch.fetches = 1 /\ epoch.connects = 1
    /\ \E t1, t2 \in Threads :
          t1 # t2 /\ conn[t1] = connection /\ conn[t2] = connection

\* The places where a thread executes a statement, and the connection it uses.
ExecPlaces ==
    {"ete_create_menu", "ete_create_orders", "csm_delete", "csm_insert", "init_count",
     "ep_count_menu", "ep_count_orders", "gm_select", "go_select", "cl_delete",
     "co_count1", "co_insert", "co_count2", "co_select", "co_fallback"}

ConnAt(t) ==
    IF pc[t] = "init_count" THEN connInit[t]
    ELSE IF pc[t] \in {"ep_count_menu", "ep_count_orders"} THEN connEp[t]
    ELSE conn[t]

\* Thread t's step is get_connection returning a connection to it.
Returns(t) == gc[t] \in {"connect", "reuse"} /\ gc'[t] # gc[t] /\ lock' = None
                  /\ pc'[t] = AfterReturn(pc[t])

\* Thread t's step executes a statement on an open connection.
Executes(t) == pc[t] \in ExecPlaces /\ pc'[t] # pc[t] /\ ~conns[ConnAt(t)].closed

\* C3 (SpecSession), as claimed: whenever get_connection returns, the cached
\* expiry has not passed and the connection returned was opened with the cached
\* token; and no statement is executed on a connection whose token is past its
\* cached expiry.
C3_NoExpiredTokenUse ==
    [][\A t \in Threads :
          /\ Returns(t) => /\ now' < token_expires_at'
                           /\ conns'[connection'].token = token'
          /\ Executes(t) => now < conns[ConnAt(t)].exp]_vars

\* C4 (SpecSession): when the token service fails inside get_connection, the call
\* raises to its caller at once (no second attempt), no connection is opened or
\* closed, token, expiry and connection are as before, and the lock is released.
C4_CredentialFailurePropagates ==
    [][\A t \in Threads :
          (gc[t] = "fetch" /\ gc'[t] # "fetch" /\ faults' # faults) =>
              /\ gc'[t] = "none"
              /\ pc'[t] = AfterRaise(pc[t], op[t])
              /\ epoch'.fetches <= epoch.fetches + 1
              /\ lock = t /\ lock' = None
              /\ UNCHANGED <<token, token_expires_at, connection, conns, issued>>]_vars

\* A request ended with the error of a token fetch: in this episode a fetch was
\* attempted and no connect, and the lock is free.
C4_Witness ==
    /\ epoch.failed /\ epoch.fetches = 1 /\ epoch.connects = 0 /\ lock = None
    /\ \E t \in Threads : pc[t] = "done" /\ op[t] = "get_orders" /\ result[t] = "error"

\* C5 (Spec): one request at a time, no transaction on any connection ever holds
\* two schema-change statements: ensure_tables_exist commits between its two
\* CREATE TABLE statements.
C5_OneDDLPerTransaction ==
    \A c \in DOMAIN conns : conns[c].ddl <= 1

\* The second CREATE TABLE has run in a transaction of its own, after the first
\* one was committed.
C5_Witness ==
    \E t \in Threads :
        /\ pc[t] = "ete_commit2"
        /\ conns[conn[t]].status = "intrans" /\ conns[conn[t]].ddl = 1
        /\ db.tables = {"menu_items"}
        /\ conns[conn[t]].w.tables = TableNames

InitOps == {"startup", "initialize"}
SeedPlaces == {"csm_getconn", "csm_delete", "csm_insert", "csm_commit", "csm_rollback"}

\* C6 (Spec): one request at a time, while the menu_items table holds a row, no
\* step of an initialization (at startup or by POST /api/initialize) changes the
\* committed tables, menu items or orders, and none enters
\* create_sample_menu_items, the only place that deletes or inserts menu items:
\* an initialization after a successful one is a no-op.
C6_InitializationIdempotent ==
    [][\A t \in Threads :
          (op[t] \in InitOps /\ BagCardinality(db.menu) >= 1) =>
              /\ db' = db
              /\ pc[t] \notin SeedPlaces
              /\ pc'[t] \notin SeedPlaces]_vars

\* POST /api/initialize has run initialize_database_with_sample_data on a seeded
\* database: it counted six rows and returned.
C6_Witness ==
    \E t \in Threads :
        op[t] = "initialize" /\ pc[t] = "ep_count_menu" /\ cnt[t] = Len(sample_items)

\* C7 (Spec): starting from an empty database, whenever
\* initialize_database_with_sample_data has returned normally, exactly 6 menu
\* items are committed, all available, in the categories Kabobs, Appetizers and
\* Desserts and no other.
C7_SixSeedItems ==
    \A t \in Threads :
        pc[t] \in {"su_done", "ep_count_menu"} =>
            /\ BagCardinality(db.menu) = 6
            /\ \A r \in BagToSet(db.menu) : r.available
            /\ {r.category : r \in BagToSet(db.menu)} = {"Kabobs", "Appetizers", "Desserts"}

\* An initialization that found the table empty and created the sample data has
\* returned.
C7_Witness ==
    \E t \in Threads :
        pc[t] \in {"su_done", "ep_count_menu"} /\ cnt[t] = 0 /\ TableNames \subseteq db.tables

\* C8 (Spec), as claimed: after the initialization failed at startup, a menu
\* query re-attempts it before it touches the tables, so that, with nothing
\* failing after the startup, both tables exist when the query has ended.
C8_LazyInitializationRetried ==
    \A t \in Threads :
        (startupFailed /\ faults = 1 /\ op[t] = "get_menu" /\ pc[t] = "done")
            => TableNames \subseteq db.tables

\* C9 (Spec), as claimed: if the initialization raises during the startup event,
\* startup does not complete and the service serves no request.
C9_StartupFailureFatal ==
    startupFailed => server # "up" /\ \A t \in Threads : op[t] \in {"none", "startup"}

\* C9 (Spec), amended: if the initialization raises during the startup event, the
\* exception is caught, startup completes and the server is up for requests.
C9_StartupFailureSwallowed ==
    /\ startupFailed => server = "up"
    /\ server \in {"starting", "up"}

\* A request is served after the startup event failed.
C9_Witness ==
    startupFailed /\ \E t \in Threads : op[t] \notin {"none", "startup"}

\* The arguments create_order rejects, after sanitization.
Rejected(a) ==
    \/ a.name = <<>> \/ a.email = <<>>
    \/ ~a.items.isList \/ a.items.len = 0
    \/ a.total <= 0 \/ a.total > 100000 * Unit

\* C10 (SpecOrders): a call of create_order whose sanitized arguments are to be
\* rejected ends with ValueError in the step of the call, before get_connection:
\* no token fetch, no connect and no statement happens, and the manager's
\* fields, the connections and both tables are as before.
C10_ValidationBeforeDatabase ==
    [][\A t \in Threads :
          (pc[t] = "idle" /\ op'[t] = "create_order" /\ Rejected(arg'[t])) =>
              /\ pc'[t] = "done" /\ result'[t] = "ValueError" /\ gc'[t] = "none"
              /\ UNCHANGED <<token, token_expires_at, connection, lock, issued, conns,
                             db, faults, nextId, epoch>>]_vars

\* create_order has rejected a total above the limit.
C10_Witness ==
    \E t \in Threads :
        /\ pc[t] = "done" /\ op[t] = "create_order" /\ result[t] = "ValueError"
        /\ arg[t].total > 100000 * Unit /\ arg[t].name # <<>> /\ arg[t].email # <<>>
        /\ arg[t].items.isList /\ arg[t].items.len > 0

\* Thread t's call of create_order has ended with an exception of its database
\* work, or has returned.
OrderRaised(t) == op[t] = "create_order" /\ pc[t] = "done" /\ result[t] = "error"
OrderReturned(t) == op[t] = "create_order" /\ pc[t] = "done" /\ result[t] = "ok"

\* C11 (SpecShared), as claimed: with other requests committing and rolling back
\* on the shared connection, when create_order has raised no committed order row
\* carries the id it tried to insert, and when it has returned the row it
\* inserted is committed, once.
C11_OrderFailureAtomicity ==
    \A t \in Threads :
        /\ OrderRaised(t) => RowsById(db, arg[t].id) = {}
        /\ OrderReturned(t) => RowsById(db, arg[t].id) = {OrderRow(arg[t])}

\* C12 (SpecShared), as claimed: when create_order has returned, also through the
\* most-recent-order fallback and with concurrent requests, the record returned
\* carries the sanitized name, the sanitized email and the total submitted in
\* the call (the total as the NUMERIC(10, 2) column keeps it).
C12_OrderRoundTrip ==
    \A t \in Threads :
        OrderReturned(t) =>
            /\ row[t].customer_name = arg[t].name
            /\ row[t].customer_email = arg[t].email
            /\ row[t].total_amount = RoundToCents(arg[t].total)

\* C13 (Spec), as claimed: get_menu_items and get_all_orders never raise to their
\* caller: whatever fails, the token fetch, the connect and the rollback
\* included, they return their rows or their fallback (the sample list, the
\* empty list).
C13_ReadPathsNeverRaise ==
    \A t \in Threads :
        (op[t] \in {"get_menu", "get_orders"} /\ pc[t] = "done")
            => result[t] \in {"ok", "fallback"}

\* POST /api/orders of thread t has created its order and answers with the row.
PostReturned(t) == op[t] = "post_order" /\ pc[t] = "done" /\ result[t] = "ok"

\* C14 (SpecEndpoint), as claimed: the total_amount POST /api/orders returns for
\* an order it created is the sum of price * quantity over the lines submitted.
C14_TotalIsSumOfLines ==
    \A t \in Threads :
        PostReturned(t) => row[t].total_amount = order_total(arg[t].items.lines)

\* Two of the lines reference the same menu item: their ids denote one UUID.
SameItemTwice(lines) ==
    \E i, j \in 1..Len(lines) :
        i # j /\ lines[i].id.uuid # None /\ lines[i].id.uuid = lines[j].id.uuid

\* C15 (SpecEndpoint), as claimed: a submission, valid line by line, with two
\* lines that reference the same menu item, in whatever letter case the ids are
\* written, is rejected with the validation error naming the duplication; it
\* never gets an order id or a row.
C15_DuplicateItemsRejected ==
    \A t \in Threads :
        (/\ op[t] = "post_order"
         /\ \A i \in 1..Len(arg[t].items.lines) : OrderItemCreate(arg[t].items.lines[i])
         /\ SameItemTwice(arg[t].items.lines))
            => pc[t] = "done" /\ result[t] = "422_duplicate" /\ arg[t].id = None

\* The URL holds one of the listed signatures, whatever the letter case.
HasSignature(url) ==
    \E i \in 1..Len(url) :
        Lower(url[i]) \in {"../", "..\\", "<script", "<%", "drop table", "delete from",
                           "NUL", "cmd=", "exec("}

\* C16 (SpecGateway): the step in which a request reaches the middleware answers
\* 400 when the URL holds a listed signature in any letter case, and otherwise
\* 413 when the declared content length is a number above 1048576 (the URL is
\* examined first); in both cases the request ends there: no handler place is
\* entered, get_connection is not called, and the manager's fields, the
\* connections and the tables are as before.  A request with a clean URL and a
\* content length that is not a number enters the handler.
C16_GatewayPrecedesHandlers ==
    [][\A t \in Threads :
          (pc[t] = "idle" /\ request'[t] # NoRequest) =>
              LET r == request'[t]
                  declared == r.content_length.text
                  rejected == pc'[t] = "done" /\ gc'[t] = "none" /\ op'[t] = "rejected"
                              /\ UNCHANGED <<token, token_expires_at, connection, lock,
                                             issued, conns, db, faults, epoch>>
              IN  /\ HasSignature(r.url) => rejected /\ result'[t] = "400"
                  /\ (~HasSignature(r.url) /\ IsDigits(declared)
                      /\ DigitsValue(declared) > 1048576) => rejected /\ result'[t] = "413"
                  /\ (~HasSignature(r.url) /\ declared # <<>> /\ ~IsDigits(declared))
                         => pc'[t] = "gm_getconn" /\ op'[t] = "get_menu"]_vars

\* A request whose URL holds a signature in another letter case, and which also
\* declares a length over the limit, was answered 400.
C16_Witness ==
    \E t \in Threads :
        /\ pc[t] = "done" /\ op[t] = "rejected"
        /\ result[t] = "400" /\ request[t].url = <<"/api/menu", "drop table">>
        /\ request[t].content_length.text = <<"2", "0", "0", "0", "0", "0", "0">>

\* C17 (SpecClear): in every step of clear_all_orders' database work, when the
\* request is answered with success the committed orders table is empty, the
\* menu items and the tables are as before and no transaction is left open; any
\* other step leaves the committed database as it was; a failed delete or commit
\* goes to the rollback, after which the request is answered 500 with no
\* transaction left open on the connection.
C17_ClearOrders ==
    [][\A t \in Threads :
          (op[t] = "clear_orders" /\ pc[t] \in {"cl_delete", "cl_commit", "cl_rollback"}) =>
              LET succeeded == pc'[t] = "done" /\ result'[t] = "ok"
              IN  /\ succeeded =>
                        /\ pc[t] = "cl_commit"
                        /\ db'.orders = {}
                        /\ db'.menu = db.menu /\ db'.tables = db.tables
                        /\ conns'[conn[t]].status = "idle"
                  /\ ~succeeded => db' = db
                  /\ (pc[t] \in {"cl_delete", "cl_commit"} /\ pc'[t] # pc[t] /\ ~succeeded) =>
                        \/ pc[t] = "cl_delete" /\ pc'[t] = "cl_commit" /\ faults' = faults
                        \/ pc'[t] = "cl_rollback"
                  /\ (pc[t] = "cl_rollback" /\ pc'[t] # pc[t]) =>
                        /\ pc'[t] = "done" /\ result'[t] = "error"
                        /\ conns'[conn[t]].status = "idle"]_vars

\* A clear that found an order has succeeded: the committed orders table is
\* empty and the seeds are still there.
C17_Witness ==
    \E t \in Threads :
        /\ op[t] = "clear_orders" /\ pc[t] = "done" /\ result[t] = "ok"
        /\ db.orders = {} /\ db.menu = SeededDB.menu /\ nextId = 0

\* The connection get_connection hands to thread t in this step.
Returned(t) ==
    IF pc[t] = "init_getconn" THEN connInit'[t]
    ELSE IF pc[t] = "ep_getconn" THEN connEp'[t]
    ELSE conn'[t]

\* C18 (SpecSession): the step in which get_connection takes the lock goes to the
\* token fetch exactly when the token is absent, the expiry is absent or reached
\* (now >= expiry), the connection is absent or the connection is closed, and
\* to the reuse otherwise.  The refresh fetches a token and caches it; its
\* connect closes the open connection, if any, and opens a connection with the
\* cached token, which becomes the manager's.  The reuse fetches no token, opens
\* no connection and returns the manager's connection.
C18_RefreshDecision ==
    [][\A t \in Threads :
          /\ (gc[t] = "enter" /\ gc'[t] # "enter") =>
                LET refresh == \/ token = None
                               \/ token_expires_at = None
                               \/ now >= token_expires_at
                               \/ connection = None
                               \/ conns[connection].closed
                IN  /\ lock' = t
                    /\ refresh => gc'[t] = "fetch"
                    /\ ~refresh => gc'[t] = "reuse"
          /\ (gc[t] = "fetch" /\ gc'[t] = "connect") =>
                issued' = issued + 1 /\ token' = issued' /\ conns' = conns
          /\ (gc[t] = "connect" /\ gc'[t] = "none" /\ faults' = faults) =>
                /\ Len(conns') = Len(conns) + 1
                /\ connection' = Len(conns') /\ Returned(t) = connection'
                /\ conns'[connection'].token = token /\ ~conns'[connection'].closed
                /\ connection # None => conns'[connection].closed
          /\ (gc[t] = "reuse" /\ gc'[t] # "reuse") =>
                /\ issued' = issued /\ token' = token
                /\ token_expires_at' = token_expires_at
                /\ Len(conns') = Len(conns)
                /\ connection' = connection /\ Returned(t) = connection]_vars

\* A refresh was decided for the one reason that the cached expiry is reached, and
\* the token has been fetched: the open connection is about to be replaced.
C18_Witness ==
    \E t \in Threads :
        /\ gc[t] = "connect" /\ lock = t
        /\ connection # None /\ ~conns[connection].closed
        /\ conns[connection].exp <= now

InPopulation(t) == pc[t] \in {"csm_delete", "csm_insert", "csm_commit", "csm_rollback"}

\* C20 (Spec): during create_sample_menu_items the committed tables change in
\* one step only, the commit that returns, after which the menu-items table
\* holds exactly the six seeds and nothing else has changed; until then the
\* deletion and the inserts are in the open transaction, all six at the commit.
\* A statement or a commit that fails goes to the rollback, which leaves no
\* transaction open and hands the error to the caller's handler; the committed
\* tables are then as they were before the call.
C20_SeedAllOrNothing ==
    [][\A t \in Threads :
          InPopulation(t) =>
              LET committed == pc[t] = "csm_commit" /\ pc'[t] = InitReturn(op[t])
                  moved == pc'[t] # pc[t] \/ idx'[t] # idx[t]
              IN  /\ committed =>
                        /\ db'.menu = SeedBag(Len(sample_items))
                        /\ db'.orders = db.orders /\ db'.tables = db.tables
                        /\ conns'[conn[t]].status = "idle"
                  /\ ~committed => db' = db
                  /\ (pc[t] = "csm_commit" /\ ~conns[conn[t]].closed) =>
                        /\ conns[conn[t]].status = "intrans"
                        /\ conns[conn[t]].w.menu = SeedBag(Len(sample_items))
                  /\ (moved /\ ~committed /\ pc[t] # "csm_rollback") =>
                        \/ faults' = faults /\ pc'[t] \in {"csm_insert", "csm_commit"}
                        \/ pc'[t] = "csm_rollback"
                  /\ (moved /\ pc[t] = "csm_rollback") =>
                        /\ pc'[t] = "init_rollback"
                        /\ conns'[conn[t]].status = "idle"]_vars

\* The population failed after all six inserts had been made: its error is with
\* the caller's handler and the menu-items table is as it was, empty.
C20_Witness ==
    \E t \in Threads :
        /\ pc[t] = "init_rollback" /\ idx[t] = Len(sample_items)
        /\ db.menu = EmptyBag /\ "menu_items" \in db.tables

\* Connection c refuses any statement: it is closed or its transaction is aborted.
Refuses(c) == conns[c].closed \/ conns[c].status = "inerror"

C22_LockCoversLifecycleOnly ==
    \A t \in Threads :
        /\ lock = t => gc[t] \in {"fetch", "connect", "reuse"}
        /\ gc[t] = "none" => lock # t

\* Two requests hold the same connection at the same time and their statements
\* have interleaved inside one open transaction: the order one of them inserted
\* is in the transaction in which the other has run its query.
C22_Witness ==
    \E t, u \in Threads :
        /\ t # u
        /\ pc[t] = "co_count2" /\ pc[u] = "go_commit"
        /\ conn[t] = conn[u] /\ conn[t] = connection
        /\ conns[connection].status = "intrans"
        /\ OrderRow(arg[t]) \in conns[connection].w.orders
        /\ OrderRow(arg[t]) \notin db.orders
        /\ lock = None

\* The places at which a thread commits on the connection it obtained.
CommitPlaces ==
    {"ete_commit1", "ete_commit2", "csm_commit", "init_commit", "ep_commit", "gm_commit",
     "go_commit", "cl_commit", "co_commit"}

\* The connection thread t obtained for the statement or commit it is at.
Borrowed(t) ==
    IF pc[t] \in {"init_count", "init_commit"} THEN connInit[t]
    ELSE IF pc[t] \in {"ep_count_menu", "ep_count_orders", "ep_commit"} THEN connEp[t]
    ELSE conn[t]

\* C23 (Spec), as claimed: no request executes a statement or a commit on a
\* connection that the manager has closed and replaced since the request
\* obtained it, POST /api/initialize included.
C23_NoConnectionPulledFromBorrower ==
    [][\A t \in Threads :
          (pc[t] \in ExecPlaces \cup CommitPlaces /\ pc'[t] # pc[t]) =>
              ~(conns[Borrowed(t)].closed /\ connection # Borrowed(t))]_vars

\* C24 (SpecSession), as claimed: the connection get_connection returns is not
\* closed when it returns; a call that finds the manager's connection closed
\* (as a failed connect leaves it) refreshes; and every connection other than
\* the one the manager references is closed.
C24_NeverReturnsClosedConnection ==
    [][\A t \in Threads :
          /\ Returns(t) => ~conns'[Returned(t)].closed
          /\ (gc[t] = "enter" /\ gc'[t] # "enter"
              /\ connection # None /\ conns[connection].closed) => gc'[t] = "fetch"
          /\ \A c \in 1..Len(conns') : c # connection' => conns'[c].closed]_vars

\* The places of each data-access operation, the operations it calls included.
EnsurePlaces ==
    {"ete_getconn", "ete_create_menu", "ete_commit1", "ete_create_orders", "ete_commit2",
     "ete_rollback"}
InitPlaces ==
    EnsurePlaces \cup SeedPlaces \cup {"init_getconn", "init_count", "init_commit",
                                       "init_rollback"}
EndpointPlaces ==
    InitPlaces \cup {"ep_getconn", "ep_count_menu", "ep_count_orders", "ep_commit",
                     "ep_rollback"}
Operations ==
    {EnsurePlaces, SeedPlaces, InitPlaces, EndpointPlaces,
     {"gm_getconn", "gm_select", "gm_commit", "gm_rollback"},
     {"co_getconn", "co_count1", "co_insert", "co_count2", "co_select", "co_fallback",
      "co_commit", "co_rollback"},
     {"go_getconn", "go_select", "go_commit", "go_rollback"},
     {"cl_getconn", "cl_delete", "cl_commit", "cl_rollback"}}

\* C25 (SpecSequential): one request at a time, the step in which a data-access
\* operation ends, by return or by exception, leaves no connection with an open
\* or aborted transaction.
C25_NoTransactionLeftOpen ==
    [][\A t \in Threads :
          (\E places \in Operations : pc[t] \in places /\ pc'[t] \notin places) =>
              \A c \in 1..Len(conns') : conns'[c].status = "idle"]_vars

\* create_order has ended with an exception after its INSERT had been executed,
\* and the connection is open and idle.
C25_Witness ==
    \E t \in Threads :
        /\ op[t] = "create_order" /\ pc[t] = "done" /\ result[t] = "error"
        /\ arg[t].id # None /\ faults = 1
        /\ connection # None /\ ~conns[connection].closed
        /\ conns[connection].status = "idle"

\* C26 (SpecInitialize), as claimed: with runs of POST /api/initialize
\* interleaving on the shared connection, once all of them have ended
\* successfully the menu-items table holds exactly the six seeds, each once.
C26_ConcurrentInitializationKeepsSeeds ==
    (\A t \in Threads : op[t] = "initialize" /\ pc[t] = "done" /\ result[t] = "ok")
        => db.menu = SeedBag(Len(sample_items))

====
